---- MODULE Spec2Model ----
(***************************************************************************)
(* Model of investpy_portfolio.StockPortfolio: the two index-aligned lists *)
(* _stock_objs (holdings) and _stocks (rows), the DataFrame snapshot data, *)
(* and the operations add_stock and refresh.  The historical price         *)
(* provider (investpy.get_historical_data) is the environment: every       *)
(* request gets a response chosen from Responses.                          *)
(***************************************************************************)
EXTENDS Integers, Sequences, FiniteSets, TLC

\* ---------------------------------------------------------------- bounds
MaxHoldings == 2
MaxDate == 1
MaxShares == 1
MaxCost == 1
MaxClose == 1
MaxSeriesLen == 2

\* ---------------------------------------------------------------- inputs
Names == {"ACME", "INIT"}
Countries == {"US", "ES"}
\* purchase_date 0 stands for a malformed or future date string
Dates == 0 .. MaxDate
Shares == 0 .. MaxShares
Costs == 1 .. MaxCost

\* the external instrument catalog: the (name, country) pairs it resolves
Catalog == {<<"ACME", "US">>, <<"INIT", "ES">>}

\* one daily record of a price series
Records == [Close : 0 .. MaxClose]

\* the price series the provider can return (chronological order)
Series == UNION {[1 .. n -> Records] : n \in 0 .. MaxSeriesLen}

\* outcome of one investpy.get_historical_data call: it raises, or it
\* returns a (possibly empty) series
Responses == {[raised |-> TRUE, data |-> <<>>]} \cup [raised : {FALSE}, data : Series]

\* ---------------------------------------------------------------- state
VARIABLES _stocks, _stock_objs, data, last, requests, fetched, accepted, refreshed,
          validated

vars == <<_stocks, _stock_objs, data, last, requests, fetched, accepted, refreshed,
          validated>>

\* self.data = None
None == [none |-> TRUE, rows |-> <<>>]

\* pd.DataFrame(self._stocks): a copy of the row list, in order
DataFrame(rows) == [none |-> FALSE, rows |-> rows]

\* Stock(stock_name, stock_country, purchase_date, num_of_shares, cost_per_share)
Stock(stock_name, stock_country, purchase_date, num_of_shares, cost_per_share) ==
    [stock_name |-> stock_name, stock_country |-> stock_country,
     purchase_date |-> purchase_date, num_of_shares |-> num_of_shares,
     cost_per_share |-> cost_per_share]

\* stock.validate(): the value of stock.valid afterwards; it never raises
validate(stock) ==
    /\ <<stock.stock_name, stock.stock_country>> \in Catalog
    /\ stock.purchase_date \in 1 .. MaxDate

\* the arguments of investpy.get_historical_data (to_date is today)
Request(stock) ==
    [equity |-> stock.stock_name, country |-> stock.stock_country,
     from_date |-> stock.purchase_date]

\* data.iloc[-1] raises IndexError on an empty frame
Fails(resp) == resp.raised \/ resp.data = <<>>

ErrorOf(resp) == IF resp.raised THEN "ProviderError" ELSE "IndexError"

current_price_first(series) == series[1].Close

\* data.iloc[-1]['Close']
current_price(series) == series[Len(series)].Close

\* float(current_price * num_of_shares)
gross_current_value(price, num_of_shares) == price * num_of_shares

append_info_front(rows, info) == <<info>> \o rows

\* self._stocks.append(info)
append_info(rows, info) == Append(rows, info)

\* __get_stock_info for a stock whose provider call returned series
get_stock_info(stock, series) ==
    LET curr_price == current_price(series)
    IN [stock_name |-> stock.stock_name,
        stock_country |-> stock.stock_country,
        purchase_date |-> stock.purchase_date,
        num_of_shares |-> stock.num_of_shares,
        cost_per_share |-> stock.cost_per_share,
        current_price |-> curr_price,
        gross_current_value |-> gross_current_value(curr_price, stock.num_of_shares)]

\* the record of the last call: its operation, whether it returned (ok) or
\* raised (error), whether validate() accepted the stock (add_stock), and
\* whether the provider answered every holding of a refresh with the series
\* its current row was computed from (unchanged)
Call(op, ok, error, valid, unchanged) ==
    [op |-> op, ok |-> ok, error |-> error, valid |-> valid, unchanged |-> unchanged]

Init ==
    /\ _stocks = <<>>
    /\ _stock_objs = <<>>
    /\ data = None
    /\ last = Call("__init__", TRUE, "", TRUE, FALSE)
    /\ requests = <<>>
    /\ fetched = <<>>
    /\ accepted = <<>>
    /\ refreshed = FALSE
    /\ validated = 0

add_stock_invalid_recorded(stock) ==
    /\ Len(_stock_objs) < MaxHoldings
    /\ _stock_objs' = Append(_stock_objs, stock)
    /\ accepted' = Append(accepted, FALSE)
    /\ last' = Call("add_stock", FALSE, "ValueError", FALSE, FALSE)
    /\ requests' = <<>>
    /\ UNCHANGED <<_stocks, data, fetched, refreshed>>

add_stock_invalid_fetching(stock) ==
    /\ last' = Call("add_stock", FALSE, "ValueError", FALSE, FALSE)
    /\ requests' = <<Request(stock)>>
    /\ UNCHANGED <<_stocks, _stock_objs, data, fetched, accepted, refreshed>>

\* add_stock, stock.valid is not True: raise ValueError
add_stock_invalid(stock) ==
    /\ last' = Call("add_stock", FALSE, "ValueError", FALSE, FALSE)
    /\ requests' = <<>>
    /\ UNCHANGED <<_stocks, _stock_objs, data, fetched, accepted, refreshed>>

\* add_stock, stock.valid is True: the stock is appended, then its row is
\* fetched (the provider answers resp), appended and the frame rebuilt
add_stock_valid(stock) ==
    /\ Len(_stock_objs) < MaxHoldings
    /\ _stock_objs' = Append(_stock_objs, stock)
    /\ requests' = <<Request(stock)>>
    /\ \E resp \in Responses :
         IF Fails(resp)
         THEN /\ UNCHANGED <<_stocks, data, fetched>>
              /\ accepted' = Append(accepted, FALSE)
              /\ last' = Call("add_stock", FALSE, ErrorOf(resp), TRUE, FALSE)
         ELSE /\ _stocks' = append_info(_stocks, get_stock_info(stock, resp.data))
              /\ data' = DataFrame(_stocks')
              /\ fetched' = Append(fetched, [stock |-> stock, data |-> resp.data])
              /\ accepted' = Append(accepted, TRUE)
              /\ last' = Call("add_stock", TRUE, "", TRUE, FALSE)
    /\ UNCHANGED refreshed

add_stock(stock_name, stock_country, purchase_date, num_of_shares, cost_per_share) ==
    LET stock == Stock(stock_name, stock_country, purchase_date, num_of_shares, cost_per_share)
    IN /\ validated' = 1
       /\ IF validate(stock) THEN add_stock_valid(stock) ELSE add_stock_invalid(stock)

RECURSIVE RefreshLoop_skipping(_, _, _, _)
RefreshLoop_skipping(i, resps, rows, made) ==
    IF i > Len(_stock_objs)
    THEN [rows |-> rows, made |-> made, n |-> i - 1, ok |-> TRUE, error |-> ""]
    ELSE IF Fails(resps[i])
         THEN RefreshLoop_skipping(i + 1, resps, rows, made)
         ELSE RefreshLoop_skipping(i + 1, resps,
                          append_info(rows, get_stock_info(_stock_objs[i], resps[i].data)),
                          Append(made, [stock |-> _stock_objs[i], data |-> resps[i].data]))

\* the for loop of refresh from index i on: rows are the rows appended so
\* far, made the stock and series each was computed from; resps[i] answers
\* the request for _stock_objs[i]
RECURSIVE RefreshLoop(_, _, _, _)
RefreshLoop(i, resps, rows, made) ==
    IF i > Len(_stock_objs)
    THEN [rows |-> rows, made |-> made, n |-> i - 1, ok |-> TRUE, error |-> ""]
    ELSE IF Fails(resps[i])
         THEN [rows |-> rows, made |-> made, n |-> i, ok |-> FALSE,
               error |-> ErrorOf(resps[i])]
         ELSE RefreshLoop(i + 1, resps,
                          append_info(rows, get_stock_info(_stock_objs[i], resps[i].data)),
                          Append(made, [stock |-> _stock_objs[i], data |-> resps[i].data]))

\* TRUE iff the refresh returned and the provider answered the request of
\* every holding with the series its current row was computed from
Unchanged(run) ==
    /\ run.ok
    /\ Len(fetched) = Len(run.made)
    /\ \A i \in 1 .. Len(run.made) : run.made[i].data = fetched[i].data

has_stock_objs_always == TRUE

\* if len(self._stock_objs) > 0
has_stock_objs == Len(_stock_objs) > 0

refresh_start_kept == _stocks

\* self._stocks = list()
refresh_start == <<>>

refresh_data_always(run) == DataFrame(run.rows)

\* self.data = pd.DataFrame(self._stocks), reached only when no fetch raised
refresh_data(run) == IF run.ok THEN DataFrame(run.rows) ELSE data

refresh ==
    IF has_stock_objs
    THEN \E resps \in [1 .. Len(_stock_objs) -> Responses] :
           LET run == RefreshLoop(1, resps, refresh_start, <<>>)
           IN /\ _stocks' = run.rows
              /\ fetched' = run.made
              /\ data' = refresh_data(run)
              /\ requests' = [i \in 1 .. run.n |-> Request(_stock_objs[i])]
              /\ last' = Call("refresh", run.ok, run.error, TRUE, Unchanged(run))
              /\ refreshed' = TRUE
              /\ validated' = 0
              /\ UNCHANGED <<_stock_objs, accepted>>
    ELSE /\ last' = Call("refresh", TRUE, "", TRUE, FALSE)
         /\ requests' = <<>>
         /\ refreshed' = TRUE
         /\ validated' = 0
         /\ UNCHANGED <<_stocks, _stock_objs, data, fetched, accepted>>

Next ==
    \/ \E n \in Names, c \in Countries, d \in Dates, s \in Shares, p \in Costs :
         add_stock(n, c, d, s, p)
    \/ refresh

Spec == Init /\ [][Next]_vars

\* ---------------------------------------------------------------- claims

\* the five holding fields a row carries
HoldingOf(row) ==
    Stock(row.stock_name, row.stock_country, row.purchase_date,
          row.num_of_shares, row.cost_per_share)

\* the stocks of the add_stock calls that returned, in call order
RECURSIVE AddedFrom(_)
AddedFrom(i) ==
    IF i > Len(_stock_objs) THEN <<>>
    ELSE IF accepted[i] THEN <<_stock_objs[i]>> \o AddedFrom(i + 1)
         ELSE AddedFrom(i + 1)

Added == AddedFrom(1)

Populated == \E i \in 1 .. Len(accepted) : accepted[i]

\* C1: after every add_stock or refresh call that returns, the holding list
\* and the row list have equal length and row i carries the five fields of
\* holding i.
C1_LockstepAfterSuccess ==
    (last.op \in {"add_stock", "refresh"} /\ last.ok) =>
        /\ Len(_stocks) = Len(_stock_objs)
        /\ \A i \in 1 .. Len(_stocks) : HoldingOf(_stocks[i]) = _stock_objs[i]

\* C2: an add_stock call whose stock is valid but whose provider request
\* fails raises and leaves the holding list, the row list and the snapshot
\* as they were.
C2_FailedFetchRecordsNothing ==
    [][(last'.op = "add_stock" /\ last'.valid /\ ~last'.ok) =>
          UNCHANGED <<_stock_objs, _stocks, data>>]_vars

\* C3: an add_stock call whose stock validate() marks invalid raises and
\* leaves the holding list, the row list and the snapshot as they were.
C3_InvalidAddChangesNothing ==
    [][(last'.op = "add_stock" /\ ~last'.valid) =>
          /\ ~last'.ok
          /\ last'.error = "ValueError"
          /\ UNCHANGED <<_stock_objs, _stocks, data>>]_vars

C3_Witness ==
    /\ last.op = "add_stock"
    /\ ~last.valid
    /\ last.error = "ValueError"
    /\ _stock_objs = <<>>
    /\ data = None

\* C4: a refresh call in which a fetch fails raises and leaves the snapshot
\* identical to the snapshot before the call.
C4_FailedRefreshKeepsSnapshot ==
    [][(last'.op = "refresh" /\ has_stock_objs /\ Len(requests') > Len(_stocks')) =>
          /\ ~last'.ok
          /\ last'.error \in {"IndexError", "ProviderError"}
          /\ data' = data]_vars

C4_Witness ==
    /\ last.op = "refresh"
    /\ ~last.ok
    /\ Len(requests) = 2
    /\ Len(_stocks) = 1
    /\ ~data.none
    /\ data.rows # _stocks

\* C5: as long as only add_stock has been called, the row list and the
\* snapshot hold one row per call that returned, and the k-th row is the row
\* computed for the stock of the k-th such call.
C5_RowsFollowCalls ==
    ~refreshed =>
        /\ Len(_stocks) = Len(Added)
        /\ \A k \in 1 .. Len(_stocks) :
             /\ HoldingOf(_stocks[k]) = Added[k]
             /\ fetched[k].stock = Added[k]
        /\ data = IF _stocks = <<>> THEN None ELSE DataFrame(_stocks)

C5_Witness ==
    /\ ~refreshed
    /\ Len(_stocks) = 2
    /\ \A i \in 1 .. Len(accepted) : accepted[i]
    /\ _stocks[1].stock_name # _stocks[2].stock_name

\* C6: every row has current_price equal to the Close of the last record of
\* the series returned for its stock, gross_current_value equal to that
\* price times the share count (0 when either is 0), and the five fields of
\* the stock unchanged.
C6_RowValues ==
    \A i \in 1 .. Len(_stocks) :
        LET row == _stocks[i]
            stock == fetched[i].stock
            series == fetched[i].data
        IN /\ series # <<>>
           /\ row.current_price = series[Len(series)].Close
           /\ row.gross_current_value = row.current_price * stock.num_of_shares
           /\ (row.current_price = 0 \/ stock.num_of_shares = 0) => row.gross_current_value = 0
           /\ row.stock_name = stock.stock_name
           /\ row.stock_country = stock.stock_country
           /\ row.purchase_date = stock.purchase_date
           /\ row.num_of_shares = stock.num_of_shares
           /\ row.cost_per_share = stock.cost_per_share

C6_Witness ==
    /\ refreshed
    /\ last.ok
    /\ Len(_stocks) = 2
    /\ Len(fetched[1].data) = 2
    /\ fetched[1].data[1].Close # fetched[1].data[2].Close
    /\ _stocks[1].gross_current_value > 0
    /\ _stocks[2].gross_current_value = 0

\* C7: refresh on a portfolio without holdings issues no provider request
\* and leaves both lists empty and the snapshot None.
C7_RefreshEmptyNoOp ==
    [][(last'.op = "refresh" /\ _stock_objs = <<>>) =>
          /\ last'.ok
          /\ requests' = <<>>
          /\ _stock_objs' = <<>>
          /\ _stocks' = <<>>
          /\ data' = None]_vars

C7_Witness ==
    /\ last.op = "refresh"
    /\ _stock_objs = <<>>
    /\ requests = <<>>
    /\ data = None

\* C8: a refresh in which the provider returns, for every holding, the
\* series its current row was computed from leaves the row list and the
\* snapshot identical.
C8_RefreshIdempotent ==
    [][(last'.op = "refresh" /\ last'.unchanged) =>
          /\ _stocks' = _stocks
          /\ data' = data]_vars

C8_Witness ==
    /\ last.op = "refresh"
    /\ last.unchanged
    /\ Len(_stocks) = 2
    /\ data = DataFrame(_stocks)

\* C9: once an add_stock call has returned, the holding list, the row list
\* and the snapshot are non-empty after every later call.
C9_NeverBackToEmpty ==
    Populated =>
        /\ _stock_objs # <<>>
        /\ _stocks # <<>>
        /\ ~data.none
        /\ data.rows # <<>>

\* C10: between calls the snapshot is None exactly when the row list is
\* empty, and otherwise holds the rows of the row list in order.
C10_SnapshotIsRows ==
    /\ data.none <=> _stocks = <<>>
    /\ ~data.none => data.rows = _stocks

\* C11: a refresh that returns on a portfolio with n holdings issues exactly
\* n provider requests, one per holding in insertion order, calls validate()
\* not once, leaves the holding list unchanged and replaces the row list by
\* n rows computed from the series just returned, in the same order.
C11_RefreshRebuildsAll ==
    [][(last'.op = "refresh" /\ last'.ok) =>
          /\ requests' = [i \in 1 .. Len(_stock_objs) |-> Request(_stock_objs[i])]
          /\ validated' = 0
          /\ _stock_objs' = _stock_objs
          /\ Len(_stocks') = Len(_stock_objs)
          /\ Len(fetched') = Len(_stock_objs)
          /\ \A i \in 1 .. Len(_stock_objs) :
               /\ fetched'[i].stock = _stock_objs[i]
               /\ HoldingOf(_stocks'[i]) = _stock_objs[i]
               /\ _stocks'[i].current_price =
                    fetched'[i].data[Len(fetched'[i].data)].Close]_vars

C11_Witness ==
    /\ last.op = "refresh"
    /\ last.ok
    /\ validated = 0
    /\ Len(requests) = 2
    /\ requests[1] # requests[2]
    /\ Len(_stocks) = 2

\* C12: an add_stock call whose stock passes validation issues exactly one
\* provider request, the one for that stock, and a call whose stock fails
\* validation issues none.
C12_OneRequestPerValidAdd ==
    [][(last'.op = "add_stock") =>
          IF last'.valid
          THEN /\ Len(requests') = 1
               /\ requests'[1] = Request(_stock_objs'[Len(_stock_objs')])
               /\ Len(_stock_objs') = Len(_stock_objs) + 1
          ELSE requests' = <<>>]_vars

C12_Witness ==
    /\ last.op = "add_stock"
    /\ last.valid
    /\ Len(requests) = 1
    /\ Len(_stock_objs) = 2
    /\ requests[1] = Request(_stock_objs[2])
    /\ requests[1] # Request(_stock_objs[1])

\* C13: every row of the row list and of the snapshot belongs to a holding
\* whose add_stock call returned: there are no more rows than such calls and
\* each row carries the fields of one of their stocks.
C13_RowsOnlyForAccepted ==
    /\ Len(_stocks) <= Len(Added)
    /\ Len(data.rows) <= Len(Added)
    /\ \A i \in 1 .. Len(_stocks) :
         \E k \in 1 .. Len(Added) : Added[k] = HoldingOf(_stocks[i])
    /\ \A i \in 1 .. Len(data.rows) :
         \E k \in 1 .. Len(Added) : Added[k] = HoldingOf(data.rows[i])

\* C14: an add_stock call that returns right after a refresh that raised,
\* on a portfolio all of whose holdings were added by calls that returned,
\* leaves the row list and the snapshot with one row for every holding
\* recorded before, in insertion order, followed by the row of the new
\* stock, and every row the snapshot had is still there.
C14_AddAfterFailedRefresh ==
    [][(/\ last.op = "refresh" /\ ~last.ok
        /\ \A i \in 1 .. Len(accepted) : accepted[i]
        /\ last'.op = "add_stock" /\ last'.ok) =>
          /\ Len(_stocks') = Len(_stock_objs) + 1
          /\ \A i \in 1 .. Len(_stock_objs) : HoldingOf(_stocks'[i]) = _stock_objs[i]
          /\ HoldingOf(_stocks'[Len(_stocks')]) = _stock_objs'[Len(_stock_objs')]
          /\ data' = DataFrame(_stocks')
          /\ Len(data'.rows) = Len(data.rows) + 1
          /\ \A i \in 1 .. Len(data.rows) :
               HoldingOf(data'.rows[i]) = HoldingOf(data.rows[i])]_vars

====
